---- MODULE Spec2Model ----
(***************************************************************************)
(* CiyuReader (src/main.py): the chapter reconstruction and annotation     *)
(* pipeline as state machines.                                             *)
(*                                                                         *)
(*   SpecGloss   get_online_translation, one provider call per step        *)
(*   SpecRender  generate_chapter_html_output, one stream item per step    *)
(*   SpecGroup   group_html_files over a discovered file list              *)
(*   Spec        main: runs of the batch over a source and output dir      *)
(*                                                                         *)
(* Text is a sequence of atoms.  An atom is one character ("zh1" and "zh2" *)
(* are two CJK ideographs, "a" a Latin letter, "," a punctuation mark,     *)
(* " " the ASCII space, "nbsp" U+00A0, "\n" the newline, "loz" the glyph   *)
(* U+25C7) or, in provider results, error messages and failure markers,    *)
(* one word.                                                               *)
(***************************************************************************)
EXTENDS Integers, Sequences, FiniteSets, TLC

VARIABLES
    got,        \* the activation of get_online_translation
    gen,        \* the activation of generate_chapter_html_output
    grp,        \* the activation of group_html_files
    source_dir, \* the page files SOURCE_DIRECTORY holds
    page_html,  \* what each page file holds
    output_dir, \* the documents OUTPUT_DIRECTORY holds, by chapter key
    main,       \* the activation of main
    audit,      \* history: the runs started and the output files written
    split,      \* the activation of segment_text_to_paragraphs
    workers     \* the activations of process_chapter, by worker

vars ==
    <<got, gen, grp, source_dir, page_html, output_dir, main, audit, split, workers>>
batch == <<source_dir, page_html, output_dir, main, audit>>

----------------------------------------------------------------------------
(* Bounds of the model *)

MaxSegLen == 2      \* longest segment handed to get_online_translation
MaxStream == 4      \* longest annotation stream handed to the renderer
MaxFiles == 3       \* most .html files the scan of the source directory finds
MaxRuns == 2        \* runs of the batch over the same directories
MaxParas == 2       \* most <p> elements of a page handed to process_chapter
MaxTextLen == 5     \* longest text handed to segment_text_to_paragraphs

----------------------------------------------------------------------------
(* Configuration, src/main.py lines 30-32.  Delays are in tenths of a     *)
(* second: ONLINE_TRANSLATION_BASE_DELAY = 0.3.                            *)

ONLINE_TRANSLATION_MAX_RETRIES == 2
ONLINE_TRANSLATION_BASE_DELAY == 3
ONLINE_TRANSLATION_RATE_LIMIT_MULTIPLIER == 4

----------------------------------------------------------------------------
(* Characters and strings *)

CJKChars == {"zh1", "zh2"}
WhitespaceChars == {" ", "nbsp", "\n"}
AlnumChars == CJKChars \cup {"a"}

\* str.strip(): leading and trailing whitespace removed.
RECURSIVE LStrip(_)
LStrip(s) ==
    IF s # <<>> /\ Head(s) \in WhitespaceChars THEN LStrip(Tail(s)) ELSE s

RECURSIVE RStrip(_)
RStrip(s) ==
    IF s # <<>> /\ s[Len(s)] \in WhitespaceChars
    THEN RStrip(SubSeq(s, 1, Len(s) - 1))
    ELSE s

Strip(s) == RStrip(LStrip(s))

\* str.isalnum(): non-empty and every character alphanumeric.
IsAlnum(s) == s # <<>> /\ \A i \in 1..Len(s) : s[i] \in AlnumChars

\* any(U+4E00 <= char <= U+9FFF for char in s)
HasCJK(s) == \E i \in 1..Len(s) : s[i] \in CJKChars

\* str.lower() on the words an error message is made of.
LowerWord(w) ==
    CASE w = "Too" -> "too"
      [] w = "Many" -> "many"
      [] w = "Requests" -> "requests"
      [] w = "RATE" -> "rate"
      [] w = "Limit" -> "limit"
      [] OTHER -> w

Lower(s) == [i \in 1..Len(s) |-> LowerWord(s[i])]

\* pat in s
Contains(s, pat) ==
    \E i \in 1..(Len(s) - Len(pat) + 1) : SubSeq(s, i, i + Len(pat) - 1) = pat

\* The batch before main is entered, over empty directories.
MainIdle ==
    [pc |-> "idle", translator_init |-> "none", online_translator |-> FALSE,
     grouped_chapters |-> <<>>, g |-> 1, all_processed_source_files |-> <<>>,
     chapters_processed_count |-> 0, chapters_skipped_count |-> 0,
     chapters_error_count |-> 0, visited |-> <<>>,
     deleted |-> {}, failed_delete |-> {}]

BatchIdle ==
    /\ source_dir = {}
    /\ page_html = <<>>
    /\ output_dir = <<>>
    /\ main = MainIdle
    /\ audit = [nrun |-> 0, writes |-> <<>>, written_run |-> <<>>]

\* The activations before their function is called.
GenIdle ==
    [pc |-> "idle", annotated_chapter_data |-> <<>>, i |-> 1,
     current_segments_zh |-> <<>>, current_segments_py |-> <<>>,
     current_segments_trans |-> <<>>, blocks |-> <<>>]

GrpIdle == [pc |-> "idle", html_files |-> <<>>, k |-> 1, chapters_data |-> <<>>]

SegIdle == [pc |-> "idle", text |-> <<>>, paragraphs |-> <<>>]

\* No worker has called process_chapter.
NoWorkers == <<>>

----------------------------------------------------------------------------
(* get_online_translation, src/main.py lines 118-177 *)

\* The strings the function returns besides a gloss or its input.
TranslatorNA == <<"Translator", "N/A">>
FailedEmpty == <<"Translation", "Failed", "(Empty)">>
FailedRateLimit == <<"Translation", "Failed", "(Rate Limit)">>
FailedMaxRetries == <<"Translation", "Failed", "(Max Retries)">>
FailedLoopEnd == <<"Translation", "Failed", "(Loop End)">>
FailureMarkers ==
    {TranslatorNA, FailedEmpty, FailedRateLimit, FailedMaxRetries, FailedLoopEnd}

\* What one call of online_translator_obj.translate(segment) can do: return a
\* text (<<>> is the empty result) or raise an exception with a message.
ErrorTexts ==
    { <<"HTTP", "429">>, <<"Too", "Many", "Requests">>, <<"RATE", "Limit">>,
      <<"too", "many">>, <<"timeout">>, <<>> }

ProviderTexts(segment) == { <<"hello">>, <<" ">>, <<>>, segment }

Outcomes(segment) ==
    [kind : {"text"}, text : ProviderTexts(segment)]
        \cup [kind : {"raise"}, text : ErrorTexts]

\* The rate-limit test on str(e), the .lower() forgotten.
MutIsRateLimitErrorCaseSensitive(msg) ==
    \/ Contains(msg, <<"429">>)
    \/ Contains(msg, <<"too", "many", "requests">>)
    \/ Contains(msg, <<"rate", "limit">>)

\* line 166: the rate-limit test on str(e).lower()
IsRateLimitError(msg) ==
    LET error_str == Lower(msg)
    IN  \/ Contains(error_str, <<"429">>)
        \/ Contains(error_str, <<"too", "many", "requests">>)
        \/ Contains(error_str, <<"rate", "limit">>)

GotIdle ==
    [pc |-> "idle", segment |-> <<>>, online_translator_obj |-> FALSE,
     attempt |-> 0, calls |-> 0, sleeps |-> <<>>, outcomes |-> <<>>,
     result |-> <<>>]

GotReturn(st, text) == [st EXCEPT !.pc = "returned", !.result = text]

GotSleep(st, duration) == [st EXCEPT !.sleeps = Append(@, duration)]

\* The end of one iteration of `for attempt in range(MAX_RETRIES + 1)` that
\* did not return: the next attempt, or line 177 once the range is exhausted.
GotNextAttempt(st) ==
    IF st.attempt + 1 < ONLINE_TRANSLATION_MAX_RETRIES + 1
    THEN [st EXCEPT !.attempt = @ + 1]
    ELSE GotReturn(st, FailedLoopEnd)

\* The pre-filters returning the trimmed segment and sending every other
\* segment, CJK or not, to the provider.
MutGotEnterTrimmed(segment, online_translator_obj) ==
    LET st == [GotIdle EXCEPT !.segment = segment,
                              !.online_translator_obj = online_translator_obj]
    IN  IF ~online_translator_obj THEN GotReturn(st, TranslatorNA)
        ELSE IF segment = <<>> \/ Strip(segment) = <<>>
             THEN GotReturn(st, <<"nbsp">>)
        ELSE IF Len(Strip(segment)) <= 1 /\ ~IsAlnum(Strip(segment))
             THEN GotReturn(st, Strip(segment))
        ELSE [st EXCEPT !.pc = "loop"]

\* Lines 120-133: the translator check and the pre-filters, up to the loop.
GotEnter(segment, online_translator_obj) ==
    LET st == [GotIdle EXCEPT !.segment = segment,
                              !.online_translator_obj = online_translator_obj]
    IN  IF ~online_translator_obj THEN GotReturn(st, TranslatorNA)
        ELSE IF segment = <<>> \/ Strip(segment) = <<>>
             THEN GotReturn(st, <<"nbsp">>)
        ELSE IF Len(Strip(segment)) <= 1 /\ ~IsAlnum(Strip(segment))
             THEN GotReturn(st, segment)
        ELSE IF ~HasCJK(Strip(segment)) THEN GotReturn(st, segment)
        ELSE [st EXCEPT !.pc = "loop"]

\* The commented-out lines 150-154 enabled: a result identical to the source
\* is raised as an exception and retried, or given up on the last attempt.
MutGotAttemptRetryIdentical(st, o) ==
    LET called == [st EXCEPT !.calls = @ + 1, !.outcomes = Append(@, o)]
        more == st.attempt < ONLINE_TRANSLATION_MAX_RETRIES
        base == ONLINE_TRANSLATION_BASE_DELAY * (st.attempt + 1)
    IN  IF o.kind = "text" /\ o.text # <<>>
        THEN IF Strip(o.text) # Strip(st.segment) THEN GotReturn(called, o.text)
             ELSE IF more THEN GotNextAttempt(GotSleep(called, base))
             ELSE GotReturn(called, FailedMaxRetries)
        ELSE IF more THEN GotNextAttempt(GotSleep(called, base))
        ELSE GotReturn(called, FailedEmpty)

\* The backoff the same after every attempt, the factor (attempt + 1) dropped.
MutGotAttemptFlatBackoff(st, o) ==
    LET called == [st EXCEPT !.calls = @ + 1, !.outcomes = Append(@, o)]
        more == st.attempt < ONLINE_TRANSLATION_MAX_RETRIES
        base == ONLINE_TRANSLATION_BASE_DELAY
    IN  IF o.kind = "text"
        THEN IF o.text # <<>> THEN GotReturn(called, o.text)
             ELSE IF more THEN GotNextAttempt(GotSleep(called, base))
             ELSE GotReturn(called, FailedEmpty)
        ELSE IF IsRateLimitError(o.text)
             THEN IF more
                  THEN GotNextAttempt(GotSleep(called,
                           base * ONLINE_TRANSLATION_RATE_LIMIT_MULTIPLIER))
                  ELSE GotReturn(called, FailedRateLimit)
        ELSE IF more THEN GotNextAttempt(GotSleep(called, base))
        ELSE GotReturn(called, FailedMaxRetries)

\* A rate-limit error of an earlier attempt deciding the marker.
MutGotAttemptStickyRateLimit(st, o) ==
    LET called == [st EXCEPT !.calls = @ + 1, !.outcomes = Append(@, o)]
        more == st.attempt < ONLINE_TRANSLATION_MAX_RETRIES
        base == ONLINE_TRANSLATION_BASE_DELAY * (st.attempt + 1)
        limited == \E n \in 1..Len(called.outcomes) :
                       /\ called.outcomes[n].kind = "raise"
                       /\ IsRateLimitError(called.outcomes[n].text)
    IN  IF o.kind = "text" /\ o.text # <<>> THEN GotReturn(called, o.text)
        ELSE IF more
             THEN GotNextAttempt(GotSleep(called,
                      IF o.kind = "raise" /\ IsRateLimitError(o.text)
                      THEN base * ONLINE_TRANSLATION_RATE_LIMIT_MULTIPLIER
                      ELSE base))
        ELSE IF limited THEN GotReturn(called, FailedRateLimit)
        ELSE IF o.kind = "text" THEN GotReturn(called, FailedEmpty)
        ELSE GotReturn(called, FailedMaxRetries)

\* Lines 138-176: one iteration of the retry loop, the provider doing `o`.
GotAttempt(st, o) ==
    LET called == [st EXCEPT !.calls = @ + 1, !.outcomes = Append(@, o)]
        more == st.attempt < ONLINE_TRANSLATION_MAX_RETRIES
        base == ONLINE_TRANSLATION_BASE_DELAY * (st.attempt + 1)
    IN  IF o.kind = "text"
        THEN IF o.text # <<>> THEN GotReturn(called, o.text)
             ELSE IF more THEN GotNextAttempt(GotSleep(called, base))
             ELSE GotReturn(called, FailedEmpty)
        ELSE IF IsRateLimitError(o.text)
             THEN IF more
                  THEN GotNextAttempt(GotSleep(called,
                           base * ONLINE_TRANSLATION_RATE_LIMIT_MULTIPLIER))
                  ELSE GotReturn(called, FailedRateLimit)
        ELSE IF more THEN GotNextAttempt(GotSleep(called, base))
        ELSE GotReturn(called, FailedMaxRetries)

Alphabet == {"zh1", "a", ",", " ", "nbsp"}

RECURSIVE SeqsUpTo(_, _)
SeqsUpTo(S, n) ==
    IF n = 0 THEN {<<>>}
    ELSE LET shorter == SeqsUpTo(S, n - 1)
         IN  shorter \cup {Append(s, x) : s \in shorter, x \in S}

Segments == SeqsUpTo(Alphabet, MaxSegLen)

GlossIdleRest ==
    gen = GenIdle /\ grp = GrpIdle /\ split = SegIdle /\ workers = NoWorkers /\ BatchIdle

GlossInit == got = GotIdle /\ GlossIdleRest

GotCall ==
    /\ got.pc = "idle"
    /\ \E segment \in Segments, online_translator_obj \in BOOLEAN :
           got' = GotEnter(segment, online_translator_obj)
    /\ UNCHANGED <<gen, grp, batch, split, workers>>

GotTry ==
    /\ got.pc = "loop"
    /\ \E o \in Outcomes(got.segment) : got' = GotAttempt(got, o)
    /\ UNCHANGED <<gen, grp, batch, split, workers>>

GlossNext == GotCall \/ GotTry

SpecGloss == GlossInit /\ [][GlossNext]_vars

----------------------------------------------------------------------------
(* Properties of get_online_translation, checked under SpecGloss *)

\* A provider outcome that is no gloss: an empty result or an exception.
IsFailedOutcome(o) == o.kind = "raise" \/ o.text = <<>>

\* The error messages of ErrorTexts that contain "429", "too many requests"
\* or "rate limit" when case is ignored, listed by hand.
RateLimitTexts ==
    { <<"HTTP", "429">>, <<"Too", "Many", "Requests">>, <<"RATE", "Limit">> }

IsRateLimitOutcome(o) == o.kind = "raise" /\ o.text \in RateLimitTexts

SpaceChars == {" ", "nbsp"}
IsBlank(s) == \A i \in 1..Len(s) : s[i] \in WhitespaceChars
NoCJK(s) == \A i \in 1..Len(s) : s[i] \notin CJKChars

C3_RateLimitEveryAttempt ==
    (got.outcomes # <<>> /\
        \A i \in 1..Len(got.outcomes) : IsRateLimitOutcome(got.outcomes[i])) =>
        IF got.calls = ONLINE_TRANSLATION_MAX_RETRIES + 1
        THEN got.pc = "returned" /\ got.result = FailedRateLimit
        ELSE got.pc = "loop" /\ got.calls < ONLINE_TRANSLATION_MAX_RETRIES + 1

\* C3 witness: three rate-limit errors, in mixed case, and the marker returned.
C3_Witness ==
    /\ got.pc = "returned" /\ got.calls = 3
    /\ \A i \in 1..3 : IsRateLimitOutcome(got.outcomes[i])
    /\ got.outcomes[2].text = <<"Too", "Many", "Requests">>
    /\ got.result = FailedRateLimit

\* C4: with an initialized translator a blank input, an input that trims to
\* at most one non-alphanumeric character and an input without a CJK
\* character each return with no provider call and no sleep: one space
\* character (U+00A0) for the blank input, the input itself otherwise.
C4_PrefilterShortCircuit ==
    (got.pc # "idle" /\ got.online_translator_obj) =>
        /\ IsBlank(got.segment) =>
               /\ got.pc = "returned" /\ got.calls = 0 /\ got.sleeps = <<>>
               /\ Len(got.result) = 1 /\ got.result[1] \in SpaceChars
        /\ (~IsBlank(got.segment) /\
                \/ Len(Strip(got.segment)) <= 1 /\ ~IsAlnum(Strip(got.segment))
                \/ NoCJK(got.segment)) =>
               /\ got.pc = "returned" /\ got.calls = 0 /\ got.sleeps = <<>>
               /\ got.result = got.segment

\* C4 witness: a lone punctuation mark with a leading space came back as given.
C4_Witness ==
    /\ got.pc = "returned" /\ got.online_translator_obj
    /\ got.segment = <<" ", ",">> /\ got.result = <<" ", ",">>
    /\ got.calls = 0

\* The sleep the claim prescribes after the failed attempt with 0-based
\* index i, in tenths of a second.
Backoff(o, i) ==
    IF IsRateLimitOutcome(o)
    THEN ONLINE_TRANSLATION_BASE_DELAY * ONLINE_TRANSLATION_RATE_LIMIT_MULTIPLIER * (i + 1)
    ELSE ONLINE_TRANSLATION_BASE_DELAY * (i + 1)

\* The failed attempts of a call after which another attempt is due.
RetriedAttempts ==
    { n \in 1..Len(got.outcomes) :
        IsFailedOutcome(got.outcomes[n]) /\ n < ONLINE_TRANSLATION_MAX_RETRIES + 1 }

\* C15: the call has slept once after each failed attempt that is not the
\* last one, and at no other time: the n-th sleep follows the n-th attempt
\* (0-based index n - 1) and lasts ONLINE_TRANSLATION_BASE_DELAY * n, times
\* ONLINE_TRANSLATION_RATE_LIMIT_MULTIPLIER when that attempt raised a
\* rate-limit error; a call that used up all its attempts slept
\* ONLINE_TRANSLATION_MAX_RETRIES times, a call without a provider call never.
C15_LinearBackoff ==
    /\ Len(got.sleeps) = Cardinality(RetriedAttempts)
    /\ \A n \in 1..Len(got.sleeps) :
           /\ n \in RetriedAttempts
           /\ got.sleeps[n] = Backoff(got.outcomes[n], n - 1)
    /\ (got.pc = "returned" /\ got.calls = ONLINE_TRANSLATION_MAX_RETRIES + 1) =>
           Len(got.sleeps) = ONLINE_TRANSLATION_MAX_RETRIES
    /\ (got.pc = "returned" /\ got.calls >= 1) => Len(got.sleeps) = got.calls - 1
    /\ got.calls = 0 => got.sleeps = <<>>

\* C15 witness: an empty result, then a rate-limit error, then a success:
\* sleeps of 0.3 s and of 0.3 * 4 * 2 = 2.4 s, and none after the success.
C15_Witness ==
    /\ got.pc = "returned" /\ got.calls = 3
    /\ got.outcomes[1] = [kind |-> "text", text |-> <<>>]
    /\ IsRateLimitOutcome(got.outcomes[2])
    /\ got.outcomes[3] = [kind |-> "text", text |-> <<"hello">>]
    /\ got.sleeps = <<3, 24>>

\* The marker the claim assigns to a failed last attempt.
MarkerOf(o) ==
    IF o.kind = "text" THEN FailedEmpty
    ELSE IF IsRateLimitOutcome(o) THEN FailedRateLimit
    ELSE FailedMaxRetries

\* C16: a call whose ONLINE_TRANSLATION_MAX_RETRIES + 1 attempts all failed
\* returns the marker of its last attempt's failure, whatever the earlier
\* failures were; no call returns the marker of the fall-through line 177.
C16_MarkerOfLastAttempt ==
    /\ (got.pc = "returned" /\ got.calls = ONLINE_TRANSLATION_MAX_RETRIES + 1
            /\ IsFailedOutcome(got.outcomes[got.calls])) =>
           got.result = MarkerOf(got.outcomes[got.calls])
    /\ got.result # FailedLoopEnd

\* C16 witness: a rate-limit error, an empty result and a timeout: the
\* marker is that of the timeout, "Max Retries".
C16_Witness ==
    /\ got.pc = "returned" /\ got.calls = 3
    /\ IsRateLimitOutcome(got.outcomes[1])
    /\ got.outcomes[2] = [kind |-> "text", text |-> <<>>]
    /\ got.outcomes[3] = [kind |-> "raise", text |-> <<"timeout">>]
    /\ got.result = FailedMaxRetries

----------------------------------------------------------------------------
(* generate_chapter_html_output, src/main.py lines 180-226 *)

PARAGRAPH_BREAK == [tag |-> "PARAGRAPH_BREAK"]

\* The text of one <td>: f"<td>{seg if seg.strip() else nbsp}</td>"
Cell(seg) == IF Strip(seg) # <<>> THEN seg ELSE <<"nbsp">>

Cells(segs) == [k \in 1..Len(segs) |-> Cell(segs[k])]

\* Lines 201-208 and 216-223: one segment-block, a table of three rows.
Block(zh, py, trans) ==
    [chinese_row |-> Cells(zh), pinyin_row |-> Cells(py),
     translation_row |-> Cells(trans)]

\* Line 196: the buffers start empty; html_parts holds no block yet.
GenEnter(annotated_chapter_data) ==
    [GenIdle EXCEPT !.pc = "loop",
                    !.annotated_chapter_data = annotated_chapter_data]

\* The paragraph break emitting its block without resetting the buffers.
MutGenItemNoReset(st) ==
    LET item == st.annotated_chapter_data[st.i]
        next == [st EXCEPT !.i = @ + 1]
    IN  IF item = PARAGRAPH_BREAK
        THEN IF st.current_segments_zh # <<>>
             THEN [next EXCEPT
                     !.blocks = Append(@, Block(st.current_segments_zh,
                                                st.current_segments_py,
                                                st.current_segments_trans))]
             ELSE next
        ELSE [next EXCEPT
                !.current_segments_zh = Append(@, item.zh),
                !.current_segments_py = Append(@, item.py),
                !.current_segments_trans = Append(@, item.trans)]

\* Lines 198-213: one iteration of `for item in annotated_chapter_data`.
GenItem(st) ==
    LET item == st.annotated_chapter_data[st.i]
        next == [st EXCEPT !.i = @ + 1]
    IN  IF item = PARAGRAPH_BREAK
        THEN IF st.current_segments_zh # <<>>
             THEN [next EXCEPT
                     !.blocks = Append(@, Block(st.current_segments_zh,
                                                st.current_segments_py,
                                                st.current_segments_trans)),
                     !.current_segments_zh = <<>>,
                     !.current_segments_py = <<>>,
                     !.current_segments_trans = <<>>]
             ELSE next
        ELSE [next EXCEPT
                !.current_segments_zh = Append(@, item.zh),
                !.current_segments_py = Append(@, item.py),
                !.current_segments_trans = Append(@, item.trans)]

\* The function without its "Handle last paragraph" step.
MutGenFinishNoFlush(st) == [st EXCEPT !.pc = "done"]

\* Lines 215-226: the last paragraph's block, then the document is returned.
GenFinish(st) ==
    IF st.current_segments_zh # <<>>
    THEN [st EXCEPT !.pc = "done",
                    !.blocks = Append(@, Block(st.current_segments_zh,
                                               st.current_segments_py,
                                               st.current_segments_trans))]
    ELSE [st EXCEPT !.pc = "done"]

\* The streams fed to the renderer: at position k a paragraph break, an
\* annotation whose three texts name k, or an annotation of blank texts.
StreamItem(shape, k) ==
    CASE shape = "brk" -> PARAGRAPH_BREAK
      [] shape = "ann" -> [zh |-> <<"zh1", ToString(k)>>,
                           py |-> <<"py", ToString(k)>>,
                           trans |-> <<"en", ToString(k)>>]
      [] OTHER -> [zh |-> <<>>, py |-> <<"nbsp">>, trans |-> <<" ">>]

Streams ==
    { [k \in 1..Len(shapes) |-> StreamItem(shapes[k], k)] :
        shapes \in SeqsUpTo({"brk", "ann", "blank"}, MaxStream) }

RenderInit ==
    /\ gen = GenIdle /\ got = GotIdle /\ grp = GrpIdle
    /\ split = SegIdle /\ workers = NoWorkers /\ BatchIdle

GenCall ==
    /\ gen.pc = "idle"
    /\ \E annotated_chapter_data \in Streams :
           gen' = GenEnter(annotated_chapter_data)
    /\ UNCHANGED <<got, grp, batch, split, workers>>

GenLoop ==
    /\ gen.pc = "loop"
    /\ gen.i <= Len(gen.annotated_chapter_data)
    /\ gen' = GenItem(gen)
    /\ UNCHANGED <<got, grp, batch, split, workers>>

GenReturn ==
    /\ gen.pc = "loop"
    /\ gen.i > Len(gen.annotated_chapter_data)
    /\ gen' = GenFinish(gen)
    /\ UNCHANGED <<got, grp, batch, split, workers>>

RenderNext == GenCall \/ GenLoop \/ GenReturn

SpecRender == RenderInit /\ [][RenderNext]_vars

----------------------------------------------------------------------------
(* Properties of generate_chapter_html_output, checked under SpecRender *)

IsAnnotation(item) == item # PARAGRAPH_BREAK

\* The maximal runs of consecutive annotations of a stream, in order.
RECURSIVE RunsOf(_, _)
RunsOf(stream, run) ==
    IF stream = <<>> THEN (IF run = <<>> THEN <<>> ELSE <<run>>)
    ELSE IF IsAnnotation(Head(stream))
         THEN RunsOf(Tail(stream), Append(run, Head(stream)))
         ELSE (IF run = <<>> THEN <<>> ELSE <<run>>) \o RunsOf(Tail(stream), <<>>)

Runs(stream) == RunsOf(stream, <<>>)

\* The positions of a stream where a maximal run of annotations begins.
RunStarts(stream) ==
    { k \in 1..Len(stream) :
        IsAnnotation(stream[k]) /\ (k = 1 \/ ~IsAnnotation(stream[k - 1])) }

\* The positions before n where a paragraph break closes a run.
RunEndsBefore(stream, n) ==
    { k \in 2..(n - 1) : ~IsAnnotation(stream[k]) /\ IsAnnotation(stream[k - 1]) }

\* C5: the renderer emits one block per maximal run of consecutive
\* annotations: while reading, one per run already closed by a paragraph
\* break (a break on empty buffers adds none); on return, one per run of the
\* whole stream, so none for a stream of breaks only and one for a last run
\* that no break follows.
C5_OneBlockPerRun ==
    /\ gen.pc = "loop" =>
           Len(gen.blocks)
               = Cardinality(RunEndsBefore(gen.annotated_chapter_data, gen.i))
    /\ gen.pc = "done" =>
           /\ Len(gen.blocks) = Cardinality(RunStarts(gen.annotated_chapter_data))
           /\ (\A k \in 1..Len(gen.annotated_chapter_data) :
                   ~IsAnnotation(gen.annotated_chapter_data[k]))
                  => gen.blocks = <<>>

\* C5 witness: a stream of two runs whose second is not followed by a break
\* has been rendered to two blocks.
C5_Witness ==
    /\ gen.pc = "done" /\ Len(gen.annotated_chapter_data) = 4
    /\ IsAnnotation(gen.annotated_chapter_data[1])
    /\ ~IsAnnotation(gen.annotated_chapter_data[2])
    /\ ~IsAnnotation(gen.annotated_chapter_data[3])
    /\ IsAnnotation(gen.annotated_chapter_data[4])
    /\ Len(gen.blocks) = 2

RowOf(run, field) == [k \in 1..Len(run) |-> Cell(run[k][field])]

ExpectedBlock(run) ==
    [chinese_row |-> RowOf(run, "zh"), pinyin_row |-> RowOf(run, "py"),
     translation_row |-> RowOf(run, "trans")]

ExpectedBlocks(stream) ==
    LET runs == Runs(stream) IN [k \in 1..Len(runs) |-> ExpectedBlock(runs[k])]

\* The annotations of a stream after its last paragraph break.
RECURSIVE OpenRun(_)
OpenRun(stream) ==
    IF stream = <<>> \/ ~IsAnnotation(stream[Len(stream)]) THEN <<>>
    ELSE Append(OpenRun(SubSeq(stream, 1, Len(stream) - 1)), stream[Len(stream)])

\* C6: the three buffers always have the same length and hold, in stream
\* order, the annotations read since the last paragraph break, so they are
\* empty right after a break; the blocks emitted so far are the closed runs,
\* each with three rows of one column per annotation of its run, in order, the
\* i-th column of each row from the same annotation; on return the blocks are
\* the runs of the whole stream, every annotation in exactly one block.
C6_BlocksAreRuns ==
    (gen.pc # "idle") =>
        LET stream == gen.annotated_chapter_data
            seen == SubSeq(stream, 1, gen.i - 1)
            open == OpenRun(seen)
        IN  /\ Len(gen.current_segments_zh) = Len(gen.current_segments_py)
            /\ Len(gen.current_segments_py) = Len(gen.current_segments_trans)
            /\ gen.current_segments_zh = [k \in 1..Len(open) |-> open[k].zh]
            /\ gen.current_segments_py = [k \in 1..Len(open) |-> open[k].py]
            /\ gen.current_segments_trans = [k \in 1..Len(open) |-> open[k].trans]
            /\ gen.pc = "loop" =>
                   gen.blocks \o (IF open = <<>> THEN <<>>
                                  ELSE <<ExpectedBlock(open)>>)
                       = ExpectedBlocks(seen)
            /\ gen.pc = "done" => gen.blocks = ExpectedBlocks(stream)
            /\ \A b \in 1..Len(gen.blocks) :
                   /\ Len(gen.blocks[b].chinese_row) >= 1
                   /\ Len(gen.blocks[b].chinese_row) = Len(gen.blocks[b].pinyin_row)
                   /\ Len(gen.blocks[b].pinyin_row)
                          = Len(gen.blocks[b].translation_row)

\* C6 witness: a block of two columns was emitted on a paragraph break, the
\* buffers are empty again and a later annotation went to a second block.
C6_Witness ==
    /\ gen.pc = "done" /\ Len(gen.blocks) = 2
    /\ gen.blocks[1].chinese_row = << <<"zh1", "1">>, <<"nbsp">> >>
    /\ gen.blocks[1].translation_row = << <<"en", "1">>, <<"nbsp">> >>
    /\ gen.blocks[2].pinyin_row = << <<"py", "4">> >>

----------------------------------------------------------------------------
(* parse_filename and group_html_files, src/main.py lines 62-85 *)
(* A file name is the sequence of its parts, as the pattern              *)
(* volume(\d+)_chapter(\d+)_(\d+)\.html reads them.                         *)

DigitStrings == {"1", "01", "2", "3", "10"}

\* int(page_str)
IntOf(digits) ==
    CASE digits = "1" -> 1
      [] digits = "01" -> 1
      [] digits = "2" -> 2
      [] digits = "3" -> 3
      [] digits = "10" -> 10

\* re.IGNORECASE on the literal parts of the pattern.
LowerPart(w) ==
    CASE w = "VOLUME" -> "volume"
      [] w = "_Chapter" -> "_chapter"
      [] w = ".HTML" -> ".html"
      [] OTHER -> w

NoMatch == [matched |-> FALSE]

\* Lines 62-69.  re.match anchors the pattern at the start of the base name
\* only: parts after ".html" do not hinder the match.
parse_filename(filename) ==
    IF /\ Len(filename) >= 7
       /\ LowerPart(filename[1]) = "volume"
       /\ filename[2] \in DigitStrings
       /\ LowerPart(filename[3]) = "_chapter"
       /\ filename[4] \in DigitStrings
       /\ filename[5] = "_"
       /\ filename[6] \in DigitStrings
       /\ LowerPart(filename[7]) = ".html"
    THEN [matched |-> TRUE, volume |-> filename[2], chapter |-> filename[4],
          page_int |-> IntOf(filename[6]), page_str |-> filename[6]]
    ELSE NoMatch

\* The key built from the numbers the strings denote.
MutChapterKeyRenumbered(volume, chapter) ==
    <<"volume", ToString(IntOf(volume)), "_chapter", ToString(IntOf(chapter))>>

\* Line 80: f"volume{volume}_chapter{chapter}"
ChapterKey(volume, chapter) == <<"volume", volume, "_chapter", chapter>>

\* The index of chapter_key in the dict's insertion order, 0 when absent.
KeyIndex(chapters_data, chapter_key) ==
    IF \E g \in 1..Len(chapters_data) : chapters_data[g].chapter_key = chapter_key
    THEN CHOOSE g \in 1..Len(chapters_data) :
             chapters_data[g].chapter_key = chapter_key
    ELSE 0

\* Lines 77-81: one file of the scan added to the defaultdict(list).
GrpAdd(chapters_data, filepath) ==
    LET parsed_info == parse_filename(filepath)
    IN  IF ~parsed_info.matched THEN chapters_data
        ELSE LET chapter_key == ChapterKey(parsed_info.volume, parsed_info.chapter)
                 page == [path |-> filepath, page_num |-> parsed_info.page_int]
                 g == KeyIndex(chapters_data, chapter_key)
             IN  IF g = 0
                 THEN Append(chapters_data,
                             [chapter_key |-> chapter_key, pages |-> <<page>>])
                 ELSE [chapters_data EXCEPT ![g].pages = Append(@, page)]

\* A sort that puts a page before the pages of equal page_num already placed.
MutInsertByPageNumUnstable(sorted, page) ==
    LET n == Cardinality({j \in 1..Len(sorted) : sorted[j].page_num < page.page_num})
    IN  SubSeq(sorted, 1, n) \o <<page>> \o SubSeq(sorted, n + 1, Len(sorted))

\* `page` placed after every page of `sorted` whose page_num is not greater.
InsertByPageNum(sorted, page) ==
    LET n == Cardinality({j \in 1..Len(sorted) : sorted[j].page_num <= page.page_num})
    IN  SubSeq(sorted, 1, n) \o <<page>> \o SubSeq(sorted, n + 1, Len(sorted))

\* Line 83: list.sort(key=lambda x: x['page_num']), ascending and stable.
RECURSIVE SortByPageNum(_)
SortByPageNum(pages) ==
    IF pages = <<>> THEN <<>>
    ELSE InsertByPageNum(SortByPageNum(SubSeq(pages, 1, Len(pages) - 1)),
                         pages[Len(pages)])

\* Lines 82-84: every group sorted.
GrpSortAll(chapters_data) ==
    [g \in 1..Len(chapters_data) |->
        [chapters_data[g] EXCEPT !.pages = SortByPageNum(@)]]

\* Lines 71-85 as one function of the list glob returned.
RECURSIVE GrpScanAll(_, _)
GrpScanAll(chapters_data, html_files) ==
    IF html_files = <<>> THEN chapters_data
    ELSE GrpScanAll(GrpAdd(chapters_data, Head(html_files)), Tail(html_files))

group_html_files(html_files) == GrpSortAll(GrpScanAll(<<>>, html_files))

\* The .html files a source directory may hold.
PageName(volume_word, volume, chapter, page) ==
    <<volume_word, volume, "_chapter", chapter, "_", page, ".html">>

FileNames ==
    { PageName("volume", "1", "1", "1"), PageName("volume", "1", "1", "01"),
      PageName("volume", "1", "1", "10"), PageName("volume", "1", "1", "2"),
      PageName("volume", "01", "1", "1"), PageName("VOLUME", "1", "2", "3"),
      PageName("volume", "1", "01", "1"),
      PageName("volume", "1", "1", "x"), <<"notes", ".html">> }

\* glob.glob lists each file once, in an order of its own.
Listings(names, n) ==
    { files \in SeqsUpTo(names, n) :
        \A a, b \in 1..Len(files) : a # b => files[a] # files[b] }

GroupInit ==
    /\ grp = GrpIdle /\ got = GotIdle /\ gen = GenIdle
    /\ split = SegIdle /\ workers = NoWorkers /\ BatchIdle

GrpCall ==
    /\ grp.pc = "idle"
    /\ \E html_files \in Listings(FileNames, MaxFiles) :
           grp' = [GrpIdle EXCEPT !.pc = "scan", !.html_files = html_files]
    /\ UNCHANGED <<got, gen, batch, split, workers>>

GrpScan ==
    /\ grp.pc = "scan"
    /\ grp.k <= Len(grp.html_files)
    /\ grp' = [grp EXCEPT !.k = @ + 1,
                          !.chapters_data = GrpAdd(@, grp.html_files[grp.k])]
    /\ UNCHANGED <<got, gen, batch, split, workers>>

GrpSort ==
    /\ grp.pc = "scan"
    /\ grp.k > Len(grp.html_files)
    /\ grp' = [grp EXCEPT !.pc = "done", !.chapters_data = GrpSortAll(@)]
    /\ UNCHANGED <<got, gen, batch, split, workers>>

GroupNext == GrpCall \/ GrpScan \/ GrpSort

SpecGroup == GroupInit /\ [][GroupNext]_vars

----------------------------------------------------------------------------
(* Properties of group_html_files, checked under SpecGroup *)

\* The place of `path` in the list glob returned.
DiscoveryIndex(html_files, path) ==
    CHOOSE d \in 1..Len(html_files) : html_files[d] = path

\* The discovered files whose name parses to the key of a group.
DiscoveredOf(html_files, chapter_key) ==
    { d \in 1..Len(html_files) :
        /\ parse_filename(html_files[d]).matched
        /\ ChapterKey(parse_filename(html_files[d]).volume,
                      parse_filename(html_files[d]).chapter) = chapter_key }

\* C10: in every group group_html_files returns, the pages are in ascending
\* order of their integer page index, they are exactly the discovered pages
\* of that chapter, each once, and pages of equal page index stand in the
\* order of their discovery.
C10_GroupsSortedStable ==
    (grp.pc = "done") =>
        \A g \in 1..Len(grp.chapters_data) :
            LET pages == grp.chapters_data[g].pages
                found == DiscoveredOf(grp.html_files, grp.chapters_data[g].chapter_key)
            IN  /\ \A a, b \in 1..Len(pages) :
                       a < b => pages[a].page_num <= pages[b].page_num
                /\ Len(pages) = Cardinality(found)
                /\ {pages[a].path : a \in 1..Len(pages)}
                       = {grp.html_files[d] : d \in found}
                /\ \A a \in 1..Len(pages) :
                       pages[a].page_num = IntOf(pages[a].path[6])
                /\ \A a, b \in 1..Len(pages) :
                       (a < b /\ pages[a].page_num = pages[b].page_num) =>
                           DiscoveryIndex(grp.html_files, pages[a].path)
                               < DiscoveryIndex(grp.html_files, pages[b].path)

\* C10 witness: pages discovered with indices 10, 01, 1 are returned as
\* 01, 1, 10: sorted, the two pages of index 1 in their discovery order.
C10_Witness ==
    /\ grp.pc = "done"
    /\ grp.html_files = << PageName("volume", "1", "1", "10"),
                           PageName("volume", "1", "1", "01"),
                           PageName("volume", "1", "1", "1") >>
    /\ Len(grp.chapters_data) = 1
    /\ [a \in 1..3 |-> grp.chapters_data[1].pages[a].path[6]] = <<"01", "1", "10">>

\* The names of FileNames that the pattern of line 63 matches, listed by hand.
ValidNames ==
    { PageName("volume", "1", "1", "1"), PageName("volume", "1", "1", "01"),
      PageName("volume", "1", "1", "10"), PageName("volume", "1", "1", "2"),
      PageName("volume", "01", "1", "1"), PageName("VOLUME", "1", "2", "3"),
      PageName("volume", "1", "01", "1") }

IsValidName(filename) == filename \in ValidNames

\* The places <<g, a>> of the groups where a path stands.
PlacesOf(chapters_data, path) ==
    { place \in UNION { {<<g, a>> : a \in 1..Len(chapters_data[g].pages)} :
                          g \in 1..Len(chapters_data) } :
        chapters_data[place[1]].pages[place[2]].path = path }

\* C19: the groups group_html_files returns partition the discovered files
\* with a valid name: each stands at exactly one place of exactly one group,
\* no other file stands in a group, no group is empty, two valid files share
\* a group exactly when their volume strings and their chapter strings are
\* equal as strings, and the groups are those of the listing without its
\* invalid names, pages in the same order.
C19_GroupsPartitionValidFiles ==
    (grp.pc = "done") =>
        LET files == grp.html_files
            groups == grp.chapters_data
        IN  /\ \A d \in 1..Len(files) :
                   Cardinality(PlacesOf(groups, files[d]))
                       = IF IsValidName(files[d]) THEN 1 ELSE 0
            /\ \A g \in 1..Len(groups) : groups[g].pages # <<>>
            /\ \A g, h \in 1..Len(groups) :
                   g # h => groups[g].chapter_key # groups[h].chapter_key
            /\ \A d, e \in 1..Len(files) :
                   (IsValidName(files[d]) /\ IsValidName(files[e])) =>
                       (\E p \in PlacesOf(groups, files[d]),
                           q \in PlacesOf(groups, files[e]) : p[1] = q[1])
                           <=> (files[d][2] = files[e][2] /\ files[d][4] = files[e][4])
            /\ groups = group_html_files(SelectSeq(files, IsValidName))

\* C19 witness: volume "1" and volume "01" of chapter "1" went to two
\* groups, and the file notes.html between them to none.
C19_Witness ==
    /\ grp.pc = "done"
    /\ grp.html_files = << PageName("volume", "1", "1", "1"), <<"notes", ".html">>,
                           PageName("volume", "01", "1", "1") >>
    /\ Len(grp.chapters_data) = 2
    /\ grp.chapters_data[1].chapter_key = <<"volume", "1", "_chapter", "1">>
    /\ grp.chapters_data[2].chapter_key = <<"volume", "01", "_chapter", "1">>
    /\ Len(grp.chapters_data[1].pages) = 1 /\ Len(grp.chapters_data[2].pages) = 1

----------------------------------------------------------------------------
(* read_and_concatenate_chapter_text and segment_text_to_paragraphs,       *)
(* src/main.py lines 87-105                                                *)

\* "\n".join(texts)
RECURSIVE JoinNewline(_)
JoinNewline(texts) ==
    IF texts = <<>> THEN <<>>
    ELSE IF Len(texts) = 1 THEN texts[1]
    ELSE texts[1] \o <<"\n">> \o JoinNewline(Tail(texts))

NonEmpty(text) == text # <<>>

\* What a page file holds: a file that cannot be read or parsed, a document
\* without div#TextContent, or the texts of the <p> elements of that div.
Unreadable == [kind |-> "unreadable", paragraphs |-> <<>>]
NoContainer == [kind |-> "nocontainer", paragraphs |-> <<>>]
Html(paragraphs) == [kind |-> "html", paragraphs |-> paragraphs]

\* Lines 93-100: the text one page adds, <<>> when it adds none.
\* p.get_text(strip=True) trims each paragraph; empty ones are filtered out.
PageText(html) ==
    IF html.kind # "html" THEN <<>>
    ELSE LET page_text_parts ==
                 [k \in 1..Len(html.paragraphs) |-> Strip(html.paragraphs[k])]
         IN  JoinNewline(SelectSeq(page_text_parts, NonEmpty))

\* The try of line 92 around the whole loop: the first page that cannot be
\* read ends the reading.
RECURSIVE MutReadStopsAtFailure(_, _)
MutReadStopsAtFailure(page_files_data, html_of) ==
    IF page_files_data = <<>> THEN <<>>
    ELSE LET html == html_of[Head(page_files_data).path]
             rest == MutReadStopsAtFailure(Tail(page_files_data), html_of)
         IN  IF html.kind = "unreadable" THEN <<>>
             ELSE IF PageText(html) = <<>> THEN rest
             ELSE IF rest = <<>> THEN PageText(html)
             ELSE PageText(html) \o <<"\n">> \o rest

\* Lines 87-102.
read_and_concatenate_chapter_text(page_files_data, html_of) ==
    LET texts == [k \in 1..Len(page_files_data) |->
                     PageText(html_of[page_files_data[k].path])]
    IN  JoinNewline(SelectSeq(texts, NonEmpty))

\* re.split(r'\n+', text): the pieces between runs of newlines; `piece` is
\* the piece being read, `in_run` whether the last character was a newline.
RECURSIVE SplitNewlines(_, _, _)
SplitNewlines(text, piece, in_run) ==
    IF text = <<>> THEN <<piece>>
    ELSE IF Head(text) = "\n"
         THEN IF in_run THEN SplitNewlines(Tail(text), <<>>, TRUE)
              ELSE <<piece>> \o SplitNewlines(Tail(text), <<>>, TRUE)
         ELSE SplitNewlines(Tail(text), Append(piece, Head(text)), FALSE)

IsParagraph(para) == Strip(para) # <<>> /\ Strip(para) # <<"loz">>

\* The pieces kept as they are, not trimmed.
MutSegmentTextNoTrim(text) ==
    SelectSeq(SplitNewlines(text, <<>>, FALSE), IsParagraph)

\* Line 105.
segment_text_to_paragraphs(text) ==
    LET kept == SelectSeq(SplitNewlines(text, <<>>, FALSE), IsParagraph)
    IN  [k \in 1..Len(kept) |-> Strip(kept[k])]

\* The chapter texts handed to segment_text_to_paragraphs.
TextAlphabet == {"zh1", "loz", " ", "\n"}
Texts == SeqsUpTo(TextAlphabet, MaxTextLen)

SplitInit ==
    /\ split = SegIdle /\ got = GotIdle /\ gen = GenIdle /\ grp = GrpIdle
    /\ workers = NoWorkers /\ BatchIdle

SegCall ==
    /\ split.pc = "idle"
    /\ \E text \in Texts : split' = [SegIdle EXCEPT !.pc = "split", !.text = text]
    /\ UNCHANGED <<got, gen, grp, workers, batch>>

SegReturn ==
    /\ split.pc = "split"
    /\ split' = [split EXCEPT !.pc = "returned",
                              !.paragraphs = segment_text_to_paragraphs(split.text)]
    /\ UNCHANGED <<got, gen, grp, workers, batch>>

SplitNext == SegCall \/ SegReturn

SpecSplit == SplitInit /\ [][SplitNext]_vars

----------------------------------------------------------------------------
(* Properties of segment_text_to_paragraphs, checked under SpecSplit *)

\* The positions where a piece of the text begins: a character that is no
\* newline, at the start of the text or right after a newline.
PieceStarts(text) ==
    { i \in 1..Len(text) : text[i] # "\n" /\ (i = 1 \/ text[i - 1] = "\n") }

\* The piece that begins at position i, up to the next newline.
PieceAt(text, i) ==
    LET e == CHOOSE j \in i..Len(text) :
                 /\ \A m \in i..j : text[m] # "\n"
                 /\ (j = Len(text) \/ text[j + 1] = "\n")
    IN  SubSeq(text, i, e)

\* A piece that is neither blank nor, trimmed, the placeholder alone.
IsGoodPiece(piece) ==
    /\ \E m \in 1..Len(piece) : piece[m] \notin WhitespaceChars
    /\ ~(\E m \in 1..Len(piece) :
            /\ piece[m] = "loz"
            /\ \A o \in 1..Len(piece) : o # m => piece[o] \in WhitespaceChars)

GoodStarts(text) == { i \in PieceStarts(text) : IsGoodPiece(PieceAt(text, i)) }

\* The k-th smallest member of a set of positions.
NthOf(positions, k) ==
    CHOOSE i \in positions : Cardinality({j \in positions : j < i}) = k - 1

\* The runs of newlines that stand between two pieces.
SeparatingRuns(text) ==
    { i \in 2..Len(text) :
        /\ text[i] = "\n" /\ text[i - 1] # "\n"
        /\ \E j \in (i + 1)..Len(text) : text[j] # "\n" }

\* C14: segment_text_to_paragraphs returns the pieces between runs of
\* newlines that are neither blank nor the placeholder alone, each trimmed,
\* in their order; so a text all of whose pieces are such, separated by N
\* runs of newlines, gives N + 1 paragraphs, and newlines at its start or
\* end, blank pieces and placeholder pieces add none.
C14_ParagraphsAreTrimmedPieces ==
    (split.pc = "returned") =>
        LET text == split.text
            good == GoodStarts(text)
        IN  /\ Len(split.paragraphs) = Cardinality(good)
            /\ \A k \in 1..Len(split.paragraphs) :
                   split.paragraphs[k] = Strip(PieceAt(text, NthOf(good, k)))
            /\ (good = PieceStarts(text) /\ good # {}) =>
                   Len(split.paragraphs) = Cardinality(SeparatingRuns(text)) + 1

\* C14 witness: two paragraphs, the first with a blank before it, separated
\* by a run of two newlines, came back as two trimmed paragraphs.
C14_Witness ==
    /\ split.pc = "returned"
    /\ split.text = <<" ", "zh1", "\n", "\n", "zh1">>
    /\ split.paragraphs = << <<"zh1">>, <<"zh1">> >>

----------------------------------------------------------------------------
(* The collaborators of the annotation step *)

\* jieba.cut(para_text): here every character is a token of its own.
Tokenize(para_text) == [k \in 1..Len(para_text) |-> <<para_text[k]>>]

\* pypinyin on one character with errors='ignore': a syllable for an
\* ideograph, nothing for any other character.
Syllables(segment) ==
    LET cjk(c) == c \in CJKChars
        kept == SelectSeq(segment, cjk)
    IN  [k \in 1..Len(kept) |-> IF kept[k] = "zh1" THEN "py1" ELSE "py2"]

\* " ".join(words)
RECURSIVE JoinSpace(_)
JoinSpace(words) ==
    IF words = <<>> THEN <<>>
    ELSE IF Len(words) = 1 THEN <<words[1]>>
    ELSE <<words[1], " ">> \o JoinSpace(Tail(words))

\* Lines 107-115; `raises` is pypinyin raising an exception.
get_pinyin_for_segment(segment, raises) ==
    IF raises THEN <<"N/A">>
    ELSE LET result == JoinSpace(Syllables(segment))
         IN  IF result # <<>> THEN result ELSE <<"nbsp">>

\* What the provider does on the successive calls made for one segment.
ProviderScripts ==
    { [k \in 1..(ONLINE_TRANSLATION_MAX_RETRIES + 1) |->
          [kind |-> "text", text |-> <<"hello">>]],
      [k \in 1..(ONLINE_TRANSLATION_MAX_RETRIES + 1) |->
          [kind |-> "raise", text |-> <<"HTTP", "429">>]] }

\* Lines 118-177 run to their return, the provider following `script`.
RECURSIVE GotLoop(_, _)
GotLoop(st, script) ==
    IF st.pc = "loop" THEN GotLoop(GotAttempt(st, script[st.calls + 1]), script)
    ELSE st

get_online_translation(segment, online_translator_obj, script) ==
    GotLoop(GotEnter(segment, online_translator_obj), script)

\* Lines 196-226 run to their return: the blocks of the document.
RECURSIVE GenRun(_)
GenRun(st) ==
    IF st.i <= Len(st.annotated_chapter_data) THEN GenRun(GenItem(st))
    ELSE GenFinish(st)

\* chapter_key.replace("_", " ").title()
ChapterTitle(chapter_key) ==
    <<"Volume", chapter_key[2], " Chapter", chapter_key[4]>>

generate_chapter_html_output(annotated_chapter_data, chapter_title) ==
    [chapter_title |-> chapter_title, complete |-> TRUE,
     blocks |-> GenRun(GenEnter(annotated_chapter_data)).blocks]

----------------------------------------------------------------------------
(* process_chapter, src/main.py lines 229-302 *)

\* What the surroundings do during one call of process_chapter: the provider
\* (script), pypinyin (pinyin_raises), the output file system (write: "ok",
\* "fails" before the file is created, "fails_partial" after open() created
\* it) and fault: a user interrupt raised inside the call before it reads a
\* page ("interrupt") or between its write and its return
\* ("interrupt_late"), or an exception ("exception") raised by the steps
\* after the output-exists check and before the write.
Environments ==
    [script : ProviderScripts, pinyin_raises : BOOLEAN,
     write : {"ok", "fails", "fails_partial"}, fault : {"none"}]
    \cup [script : {CHOOSE x \in ProviderScripts : TRUE}, pinyin_raises : {FALSE},
          write : {"ok"}, fault : {"exception", "interrupt", "interrupt_late"}]

\* Lines 272-286: the annotation of one non-empty trimmed token.
AnnotateSegment(seg_strip, online_translator_obj, env) ==
    LET pinyin_text == get_pinyin_for_segment(seg_strip, env.pinyin_raises)
        translation ==
            get_online_translation(seg_strip, online_translator_obj, env.script)
        english_text == translation.result
    IN  [item |-> [zh |-> seg_strip, py |-> pinyin_text, trans |-> english_text],
         calls |-> translation.calls,
         error |-> \/ pinyin_text = <<"N/A">>
                   \/ Contains(english_text, <<"Failed">>)
                   \/ english_text = TranslatorNA]

IsToken(seg) == Strip(seg) # <<>>

\* Lines 250-287 for one paragraph: its annotations, then PARAGRAPH_BREAK.
AnnotateParagraph(para_text, online_translator_obj, env) ==
    IF Strip(para_text) = <<>> THEN <<>>
    ELSE LET segments == SelectSeq(Tokenize(para_text), IsToken)
         IN  [k \in 1..Len(segments) |->
                 AnnotateSegment(Strip(segments[k]), online_translator_obj, env)]
             \o <<[item |-> PARAGRAPH_BREAK, calls |-> 0, error |-> FALSE]>>

RECURSIVE AnnotateChapter(_, _, _)
AnnotateChapter(paragraphs, online_translator_obj, env) ==
    IF paragraphs = <<>> THEN <<>>
    ELSE AnnotateParagraph(Head(paragraphs), online_translator_obj, env)
             \o AnnotateChapter(Tail(paragraphs), online_translator_obj, env)

RECURSIVE SumCalls(_)
SumCalls(annotated) ==
    IF annotated = <<>> THEN 0 ELSE Head(annotated).calls + SumCalls(Tail(annotated))

PagePaths(page_files_data) ==
    [k \in 1..Len(page_files_data) |-> page_files_data[k].path]

\* The output-exists check never finding the file.
MutOutputExistsNever(out, chapter_key) == FALSE

\* Line 234: os.path.exists(output_filename)
OutputExists(out, chapter_key) == chapter_key \in DOMAIN out

\* open(output_filename, 'w') and f.write(document)
WriteOutput(out, chapter_key, document) ==
    [k \in DOMAIN out \cup {chapter_key} |->
        IF k = chapter_key THEN document ELSE out[k]]

\* Line 242: nothing extracted.
ReturnNoText(out, reads) ==
    [processed_files |-> <<>>, skipped |-> FALSE, out |-> out, existed |-> FALSE,
     page_reads |-> reads, provider_calls |-> 0, wrote |-> FALSE,
     annotation_errors_occurred |-> FALSE, logged |-> "no_text"]

\* The page paths returned although the write failed.
MutReturnPathsOnWriteFailure(page_files_data) ==
    [k \in 1..Len(page_files_data) |-> page_files_data[k].path]

\* Line 302: the write failed.
ReturnOnWriteFailure(page_files_data) == <<>>

\* Lines 229-302.  The result holds the two values returned, the output
\* directory as the call leaves it and what the call did: the pages it read,
\* the provider calls it made, whether it created the output file, and
\* which of its outcomes it logged.
process_chapter(chapter_key, page_files_data, out, html_of, online_translator_obj, env) ==
    IF OutputExists(out, chapter_key)
    THEN [processed_files |-> PagePaths(page_files_data), skipped |-> TRUE,
          out |-> out, existed |-> TRUE, page_reads |-> 0, provider_calls |-> 0,
          wrote |-> FALSE, annotation_errors_occurred |-> FALSE,
          logged |-> "exists"]
    ELSE
    LET full_chapter_text ==
            read_and_concatenate_chapter_text(page_files_data, html_of)
        reads == Len(page_files_data)
    IN  IF Strip(full_chapter_text) = <<>> THEN ReturnNoText(out, reads)
        ELSE
        LET paragraphs == segment_text_to_paragraphs(full_chapter_text)
            annotated == AnnotateChapter(paragraphs, online_translator_obj, env)
            annotated_chapter_data == [k \in 1..Len(annotated) |-> annotated[k].item]
            html_output_content ==
                generate_chapter_html_output(annotated_chapter_data,
                                             ChapterTitle(chapter_key))
            done == [processed_files |-> <<>>, skipped |-> FALSE, out |-> out,
                     existed |-> FALSE, page_reads |-> reads,
                     provider_calls |-> SumCalls(annotated), wrote |-> FALSE,
                     annotation_errors_occurred |->
                         \E k \in 1..Len(annotated) : annotated[k].error,
                     logged |-> "write_failed"]
        IN  CASE env.write = "ok" ->
                   [done EXCEPT
                      !.out = WriteOutput(out, chapter_key, html_output_content),
                      !.wrote = TRUE, !.logged = "saved",
                      !.processed_files = PagePaths(page_files_data)]
              [] env.write = "fails" ->
                   [done EXCEPT
                      !.processed_files = ReturnOnWriteFailure(page_files_data)]
              [] OTHER ->
                   [done EXCEPT
                      !.out = WriteOutput(out, chapter_key,
                                  [html_output_content EXCEPT !.complete = FALSE,
                                                               !.blocks = <<>>]),
                      !.wrote = TRUE,
                      !.processed_files = ReturnOnWriteFailure(page_files_data)]

----------------------------------------------------------------------------
(* main, src/main.py lines 304-373 *)

\* Line 25.
DELETE_SOURCE_FILES_AFTER_PROCESSING == TRUE

\* The page files of the source directory: two pages of one chapter and one
\* page of another.
PageA1 == PageName("volume", "1", "1", "1")
PageA2 == PageName("volume", "1", "1", "2")
PageB1 == PageName("volume", "1", "2", "1")
PipelineFiles == {PageA1, PageA2, PageB1}
KeyA == ChapterKey("1", "1")
KeyB == ChapterKey("1", "2")
AllKeys == {KeyA, KeyB}

TextPage == Html(<< <<"zh1", ",">>, <<"loz">> >>)
PlaceholderPage == Html(<< <<"loz">> >>)
SecondTextPage == Html(<< <<"zh2">> >>)
PageOptions == {Unreadable, NoContainer, PlaceholderPage, TextPage}

\* What the page files hold: the second page of the first chapter, when it
\* has text, has a text of its own.
PipelinePages ==
    { h \in [PipelineFiles -> PageOptions \cup {SecondTextPage}] :
        \A f \in PipelineFiles :
            IF f = PageA2 THEN h[f] # TextPage ELSE h[f] # SecondTextPage }

\* A document left in the output directory by an earlier session.
OldDocument == [chapter_title |-> <<"old">>, complete |-> TRUE, blocks |-> <<>>]

Init ==
    /\ got = GotIdle /\ gen = GenIdle /\ grp = GrpIdle
    /\ split = SegIdle /\ workers = NoWorkers
    /\ source_dir = PipelineFiles
    /\ page_html \in PipelinePages
    /\ \E existing \in SUBSET AllKeys : output_dir = [k \in existing |-> OldDocument]
    /\ main = MainIdle
    /\ audit = [nrun |-> 0, writes |-> [k \in AllKeys |-> 0],
                written_run |-> [k \in AllKeys |-> 0]]

\* One chapter of the loop as the summary counts it.
Visit(chapter_key, page_files_data, outcome, invoked, r) ==
    [chapter_key |-> chapter_key, pages |-> PagePaths(page_files_data),
     outcome |-> outcome, invoked |-> invoked, existed |-> r.existed,
     page_reads |-> r.page_reads, provider_calls |-> r.provider_calls,
     wrote |-> r.wrote, returned |-> r.processed_files, logged |-> r.logged]

\* A chapter for which process_chapter was not called or did not return.
NoResult(logged) ==
    [processed_files |-> <<>>, skipped |-> FALSE, existed |-> FALSE,
     page_reads |-> 0, provider_calls |-> 0, wrote |-> FALSE, logged |-> logged]

\* What the set-up of the translator does: the library is missing (line
\* 16), GoogleTranslator(...) raises (line 318), the test call raises (line
\* 320), or nothing raises.
TranslatorInits == {"missing", "construct_raises", "test_raises", "ok"}

\* Lines 310-326: online_translator is None unless line 318 assigned it; an
\* exception of the test call is caught with the assignment already made.
InitializedTranslator(init) == init \in {"test_raises", "ok"}

\* Lines 305-332: main up to its loop, `grouped_chapters` being what the
\* scan of the source directory would return.
MainEnter(init, grouped_chapters) ==
    IF init = "missing"
    THEN [MainIdle EXCEPT !.pc = "done", !.translator_init = init]
    ELSE IF grouped_chapters = <<>>
    THEN [MainIdle EXCEPT !.pc = "done", !.translator_init = init,
                          !.online_translator = InitializedTranslator(init)]
    ELSE [MainIdle EXCEPT !.pc = "loop", !.translator_init = init,
                          !.online_translator = InitializedTranslator(init),
                          !.grouped_chapters = grouped_chapters]

\* Lines 305-332: the translator is set up and the source directory scanned;
\* `html_files` is what glob lists.
MainStart ==
    /\ main.pc \in {"idle", "done"}
    /\ audit.nrun < MaxRuns
    /\ audit' = [audit EXCEPT !.nrun = @ + 1]
    /\ \E init \in TranslatorInits,
          html_files \in Listings(source_dir, Cardinality(source_dir)) :
           /\ Len(html_files) = Cardinality(source_dir)
           /\ main' = MainEnter(init, group_html_files(html_files))
    /\ UNCHANGED <<got, gen, grp, split, workers, source_dir, page_html, output_dir>>

\* The `elif` of line 347 written as `if`: a skipped chapter, whose paths
\* are returned, is counted as processed as well.
MutCountSkippedAlsoProcessed(st, chapter_key, page_files_data, r) ==
    IF r.skipped
    THEN [st EXCEPT !.chapters_skipped_count = @ + 1,
                    !.all_processed_source_files = @ \o r.processed_files,
                    !.chapters_processed_count = @ + 1,
                    !.visited = Append(@, Visit(chapter_key, page_files_data,
                                                "skipped", TRUE, r))]
    ELSE IF r.processed_files # <<>>
    THEN [st EXCEPT !.all_processed_source_files = @ \o r.processed_files,
                    !.chapters_processed_count = @ + 1,
                    !.visited = Append(@, Visit(chapter_key, page_files_data,
                                                "processed", TRUE, r))]
    ELSE [st EXCEPT !.chapters_error_count = @ + 1,
                    !.visited = Append(@, Visit(chapter_key, page_files_data,
                                                "error", TRUE, r))]

\* Lines 346-350: the counters after process_chapter returned r.
Count(st, chapter_key, page_files_data, r) ==
    IF r.skipped
    THEN [st EXCEPT !.chapters_skipped_count = @ + 1,
                    !.visited = Append(@, Visit(chapter_key, page_files_data,
                                                "skipped", TRUE, r))]
    ELSE IF r.processed_files # <<>>
    THEN [st EXCEPT !.all_processed_source_files = @ \o r.processed_files,
                    !.chapters_processed_count = @ + 1,
                    !.visited = Append(@, Visit(chapter_key, page_files_data,
                                                "processed", TRUE, r))]
    ELSE [st EXCEPT !.chapters_error_count = @ + 1,
                    !.visited = Append(@, Visit(chapter_key, page_files_data,
                                                "error", TRUE, r))]

\* The for loop moving on: the next group, or the cleanup after the last.
NextGroup(st) ==
    IF st.g < Len(st.grouped_chapters) THEN [st EXCEPT !.g = @ + 1]
    ELSE [st EXCEPT !.g = @ + 1, !.pc = "cleanup"]

\* The history after process_chapter did r: the files written, and the run
\* that first wrote each.
Audit(history, chapter_key, r) ==
    IF r.wrote
    THEN [history EXCEPT !.writes[chapter_key] = @ + 1,
                         !.written_run[chapter_key] =
                             IF @ = 0 THEN history.nrun ELSE @]
    ELSE history

\* KeyboardInterrupt taken for an exception of the chapter: the loop goes on.
MutInterruptedContinues(st, chapter_key, page_files_data, r) ==
    NextGroup([st EXCEPT !.visited = Append(@,
                   Visit(chapter_key, page_files_data, "interrupted", TRUE, r))])

\* Line 351: KeyboardInterrupt breaks the loop; r is what the call had done.
Interrupted(st, chapter_key, page_files_data, r) ==
    [st EXCEPT !.pc = "cleanup",
               !.visited = Append(@,
                   Visit(chapter_key, page_files_data, "interrupted", TRUE, r))]

\* Lines 334-354: one iteration of the loop over grouped_chapters.
MainChapter ==
    /\ main.pc = "loop"
    /\ \E env \in Environments :
         LET chapter_key == main.grouped_chapters[main.g].chapter_key
             page_files_data == main.grouped_chapters[main.g].pages
             r == process_chapter(chapter_key, page_files_data, output_dir,
                                  page_html, main.online_translator, env)
         IN  IF ~main.online_translator
             THEN /\ main' = NextGroup(
                        [main EXCEPT !.chapters_error_count = @ + 1,
                                     !.visited = Append(@,
                                         Visit(chapter_key, page_files_data,
                                               "error", FALSE,
                                               NoResult("no_translator")))])
                  /\ UNCHANGED <<output_dir, audit>>
             ELSE IF env.fault = "interrupt"
             THEN /\ main' = Interrupted(main, chapter_key, page_files_data,
                                         NoResult("interrupt"))
                  /\ UNCHANGED <<output_dir, audit>>
             ELSE IF env.fault = "interrupt_late" /\ ~r.existed
             THEN /\ main' = Interrupted(main, chapter_key, page_files_data,
                                         [r EXCEPT !.processed_files = <<>>,
                                                   !.logged = "interrupt"])
                  /\ output_dir' = r.out
                  /\ audit' = Audit(audit, chapter_key, r)
             ELSE IF env.fault = "exception" /\ ~r.existed
             THEN /\ main' = NextGroup(
                        [main EXCEPT !.chapters_error_count = @ + 1,
                                     !.visited = Append(@,
                                         Visit(chapter_key, page_files_data,
                                               "error", TRUE,
                                               NoResult("exception")))])
                  /\ UNCHANGED <<output_dir, audit>>
             ELSE /\ main' = NextGroup(Count(main, chapter_key, page_files_data, r))
                  /\ output_dir' = r.out
                  /\ audit' = Audit(audit, chapter_key, r)
    /\ UNCHANGED <<got, gen, grp, split, workers, source_dir, page_html>>

\* Lines 356-364: the deletion loop; os.remove raises for the files of
\* `failing`.  Then the summary, and main returns.
Cleanup(st, files, failing) ==
    IF DELETE_SOURCE_FILES_AFTER_PROCESSING /\ st.all_processed_source_files # <<>>
    THEN LET listed == {st.all_processed_source_files[k] :
                            k \in 1..Len(st.all_processed_source_files)}
             present == listed \cap files
         IN  [st EXCEPT !.pc = "done", !.deleted = present \ failing,
                        !.failed_delete = present \cap failing]
    ELSE [st EXCEPT !.pc = "done"]

MainCleanup ==
    /\ main.pc = "cleanup"
    /\ \E failing \in SUBSET source_dir :
           /\ main' = Cleanup(main, source_dir, failing)
           /\ source_dir' = source_dir \ main'.deleted
    /\ UNCHANGED <<got, gen, grp, split, workers, page_html, output_dir, audit>>

Next == MainStart \/ MainChapter \/ MainCleanup

Spec == Init /\ [][Next]_vars

----------------------------------------------------------------------------
(* process_chapter step by step, src/main.py lines 229-302: one worker     *)
(* is one call; the output directory and the page files are shared.        *)

\* Before a file is written the call holds no document.
NoDocument == [chapter_title |-> <<>>, complete |-> FALSE, blocks |-> <<>>]

\* Lines 229-232: the call entered with its arguments; `env` is what the
\* provider, pypinyin and the output file system do during the call.
PchEnter(chapter_key, page_files_data, online_translator_obj, env) ==
    [pc |-> "check", chapter_key |-> chapter_key,
     page_files_data |-> page_files_data,
     online_translator_obj |-> online_translator_obj, env |-> env,
     full_chapter_text |-> <<>>, paragraphs |-> <<>>, i |-> 1,
     segments |-> <<>>, seg_idx |-> 1, annotated_chapter_data |-> <<>>,
     total_segments_processed |-> 0, annotation_errors_occurred |-> FALSE,
     page_reads |-> 0, provider_calls |-> 0,
     html_output_content |-> NoDocument, existed |-> FALSE, wrote |-> FALSE,
     processed_files |-> <<>>, skipped |-> FALSE, logged |-> "none"]

\* Lines 234-236: the output-exists check.
PchCheck(st, out) ==
    IF OutputExists(out, st.chapter_key)
    THEN [st EXCEPT !.pc = "returned", !.existed = TRUE, !.skipped = TRUE,
                    !.processed_files = PagePaths(st.page_files_data),
                    !.logged = "exists"]
    ELSE [st EXCEPT !.pc = "read"]

\* Lines 238-247: the pages read and the text split into paragraphs.
PchRead(st, html_of) ==
    LET full_chapter_text ==
            read_and_concatenate_chapter_text(st.page_files_data, html_of)
    IN  IF Strip(full_chapter_text) = <<>>
        THEN [st EXCEPT !.pc = "returned", !.logged = "no_text",
                        !.page_reads = Len(st.page_files_data)]
        ELSE [st EXCEPT !.pc = "para", !.page_reads = Len(st.page_files_data),
                        !.full_chapter_text = full_chapter_text,
                        !.paragraphs = segment_text_to_paragraphs(full_chapter_text)]

\* Lines 250-254: the next paragraph taken up and cut into tokens; a blank
\* paragraph is passed over by `continue`.
PchParagraph(st) ==
    LET para_text == st.paragraphs[st.i]
    IN  IF Strip(para_text) = <<>> THEN [st EXCEPT !.i = @ + 1]
        ELSE [st EXCEPT !.pc = "seg", !.segments = Tokenize(para_text),
                        !.seg_idx = 1]

\* The token annotated whether or not it is blank.
MutPchSegmentKeepBlank(st) ==
    LET a == AnnotateSegment(Strip(st.segments[st.seg_idx]),
                             st.online_translator_obj, st.env)
    IN  [st EXCEPT !.seg_idx = @ + 1,
                   !.annotated_chapter_data = Append(@, a.item),
                   !.total_segments_processed = @ + 1,
                   !.provider_calls = @ + a.calls,
                   !.annotation_errors_occurred = @ \/ a.error]

\* Lines 272-286: one token of the paragraph.
PchSegment(st) ==
    LET seg_strip == Strip(st.segments[st.seg_idx])
        a == AnnotateSegment(seg_strip, st.online_translator_obj, st.env)
    IN  IF seg_strip = <<>> THEN [st EXCEPT !.seg_idx = @ + 1]
        ELSE [st EXCEPT !.seg_idx = @ + 1,
                        !.annotated_chapter_data = Append(@, a.item),
                        !.total_segments_processed = @ + 1,
                        !.provider_calls = @ + a.calls,
                        !.annotation_errors_occurred = @ \/ a.error]

\* Line 287: the paragraph closed.
PchBreak(st) ==
    [st EXCEPT !.pc = "para", !.i = @ + 1,
               !.annotated_chapter_data = Append(@, PARAGRAPH_BREAK)]

\* Lines 289-291: the document generated.
PchRender(st) ==
    [st EXCEPT !.pc = "write",
               !.html_output_content =
                   generate_chapter_html_output(st.annotated_chapter_data,
                                                ChapterTitle(st.chapter_key))]

\* Lines 294-302: what the call returns after its attempt to write.
PchWrite(st) ==
    CASE st.env.write = "ok" ->
           [st EXCEPT !.pc = "returned", !.wrote = TRUE, !.logged = "saved",
                      !.processed_files = PagePaths(st.page_files_data)]
      [] st.env.write = "fails" ->
           [st EXCEPT !.pc = "returned", !.logged = "write_failed",
                      !.processed_files = ReturnOnWriteFailure(st.page_files_data)]
      [] OTHER ->
           [st EXCEPT !.pc = "returned", !.wrote = TRUE,
                      !.logged = "write_failed",
                      !.processed_files = ReturnOnWriteFailure(st.page_files_data)]

\* Line 295: the output directory after the attempt to write.
PchOutput(st, out) ==
    CASE st.env.write = "ok" ->
           WriteOutput(out, st.chapter_key, st.html_output_content)
      [] st.env.write = "fails" -> out
      [] OTHER ->
           WriteOutput(out, st.chapter_key,
                       [st.html_output_content EXCEPT !.complete = FALSE,
                                                      !.blocks = <<>>])

\* The provider of a call: as in ProviderScripts, or answering every
\* segment with the gloss "Failed state".
ChapterScripts ==
    ProviderScripts \cup
        { [k \in 1..(ONLINE_TRANSLATION_MAX_RETRIES + 1) |->
              [kind |-> "text", text |-> <<"Failed", "state">>]] }

ChapterEnvironments ==
    [script : ChapterScripts, pinyin_raises : BOOLEAN,
     write : {"ok", "fails", "fails_partial"}, fault : {"none"}]

\* The texts of the <p> elements a page may hold.
ParagraphTexts ==
    { <<"zh1", " ", "zh2">>, <<",">>, <<"loz">>, <<" ">>,
      <<"zh1", "\n", "\n", "a">> }

ChapterPages == { Html(paragraphs) : paragraphs \in SeqsUpTo(ParagraphTexts, MaxParas) }

ChapterGroup == <<[path |-> PageA1, page_num |-> 1], [path |-> PageA2, page_num |-> 2]>>

ChapterInit ==
    /\ got = GotIdle /\ gen = GenIdle /\ grp = GrpIdle /\ split = SegIdle
    /\ main = MainIdle
    /\ audit = [nrun |-> 0, writes |-> <<>>, written_run |-> <<>>]
    /\ workers = NoWorkers
    /\ source_dir = {PageA1, PageA2}
    /\ \E first \in ChapterPages, second \in {Unreadable, SecondTextPage} :
           page_html = [f \in {PageA1, PageA2} |-> IF f = PageA1 THEN first ELSE second]
    /\ \E existing \in SUBSET {KeyA} : output_dir = [k \in existing |-> OldDocument]

\* A worker calls process_chapter for the chapter.
PchCall(w) ==
    /\ w \notin DOMAIN workers
    /\ \E online_translator_obj \in BOOLEAN, env \in ChapterEnvironments :
           workers' = [v \in DOMAIN workers \cup {w} |->
                          IF v = w
                          THEN PchEnter(KeyA, ChapterGroup, online_translator_obj, env)
                          ELSE workers[v]]
    /\ UNCHANGED <<got, gen, grp, split, batch>>

PchStep(w, st) ==
    /\ workers' = [workers EXCEPT ![w] = st]
    /\ UNCHANGED <<got, gen, grp, split, batch>>

PchDoCheck(w) ==
    /\ w \in DOMAIN workers /\ workers[w].pc = "check"
    /\ PchStep(w, PchCheck(workers[w], output_dir))

PchDoRead(w) ==
    /\ w \in DOMAIN workers /\ workers[w].pc = "read"
    /\ PchStep(w, PchRead(workers[w], page_html))

PchDoParagraph(w) ==
    /\ w \in DOMAIN workers /\ workers[w].pc = "para"
    /\ workers[w].i <= Len(workers[w].paragraphs)
    /\ PchStep(w, PchParagraph(workers[w]))

PchDoSegment(w) ==
    /\ w \in DOMAIN workers /\ workers[w].pc = "seg"
    /\ workers[w].seg_idx <= Len(workers[w].segments)
    /\ PchStep(w, PchSegment(workers[w]))

PchDoBreak(w) ==
    /\ w \in DOMAIN workers /\ workers[w].pc = "seg"
    /\ workers[w].seg_idx > Len(workers[w].segments)
    /\ PchStep(w, PchBreak(workers[w]))

PchDoRender(w) ==
    /\ w \in DOMAIN workers /\ workers[w].pc = "para"
    /\ workers[w].i > Len(workers[w].paragraphs)
    /\ PchStep(w, PchRender(workers[w]))

PchDoWrite(w) ==
    /\ w \in DOMAIN workers /\ workers[w].pc = "write"
    /\ workers' = [workers EXCEPT ![w] = PchWrite(workers[w])]
    /\ output_dir' = PchOutput(workers[w], output_dir)
    /\ UNCHANGED <<got, gen, grp, split, source_dir, page_html, main, audit>>

ChapterNext ==
    \E w \in {1} :
        \/ PchCall(w)
        \/ PchDoCheck(w)
        \/ PchDoRead(w)
        \/ PchDoParagraph(w)
        \/ PchDoSegment(w)
        \/ PchDoBreak(w)
        \/ PchDoRender(w)
        \/ PchDoWrite(w)

SpecChapter == ChapterInit /\ [][ChapterNext]_vars

----------------------------------------------------------------------------
(* Two calls of process_chapter for the same chapter key at the same time: *)
(* two runs of main over the same directories.  The steps of the two calls *)
(* interleave; nothing in lines 229-302 takes a lock.                      *)

Workers == {1, 2}

\* What the surroundings do during a call of a concurrent run.
WorkerEnvironments ==
    [script : {CHOOSE x \in ProviderScripts : TRUE}, pinyin_raises : {FALSE},
     write : {"ok", "fails"}, fault : {"none"}]

WorkersInit ==
    /\ got = GotIdle /\ gen = GenIdle /\ grp = GrpIdle /\ split = SegIdle
    /\ main = MainIdle
    /\ audit = [nrun |-> 0, writes |-> <<>>, written_run |-> <<>>]
    /\ workers = NoWorkers
    /\ source_dir = {PageA1, PageA2}
    /\ \E first \in {TextPage, PlaceholderPage, Unreadable},
          second \in {Unreadable, SecondTextPage} :
           page_html = [f \in {PageA1, PageA2} |-> IF f = PageA1 THEN first ELSE second]
    /\ \E existing \in SUBSET {KeyA} : output_dir = [k \in existing |-> OldDocument]

\* A run reaches the chapter and calls process_chapter for it.
WorkerCall(w) ==
    /\ w \notin DOMAIN workers
    /\ \E env \in WorkerEnvironments :
           workers' = [v \in DOMAIN workers \cup {w} |->
                          IF v = w THEN PchEnter(KeyA, ChapterGroup, TRUE, env)
                          ELSE workers[v]]
    /\ UNCHANGED <<got, gen, grp, split, batch>>

WorkersNext ==
    \E w \in Workers :
        \/ WorkerCall(w)
        \/ PchDoCheck(w)
        \/ PchDoRead(w)
        \/ PchDoParagraph(w)
        \/ PchDoSegment(w)
        \/ PchDoBreak(w)
        \/ PchDoRender(w)
        \/ PchDoWrite(w)

SpecWorkers == WorkersInit /\ [][WorkersNext]_vars

----------------------------------------------------------------------------
(* Properties of process_chapter and main, checked under Spec *)

Visited == {main.visited[k] : k \in 1..Len(main.visited)}

\* The chapters of the current run for which process_chapter returned.
Returned == {v \in Visited : v.logged \in {"exists", "no_text", "saved", "write_failed"}}

\* The loop of the current run has gone over every group, uninterrupted.
FullPass ==
    /\ main.pc = "done"
    /\ main.grouped_chapters # <<>>
    /\ Len(main.visited) = Len(main.grouped_chapters)
    /\ \A v \in Visited : v.outcome # "interrupted"

\* The canonical paragraph sequence of the pages of a visited chapter.
ParagraphsOf(v) ==
    segment_text_to_paragraphs(
        read_and_concatenate_chapter_text(
            [k \in 1..Len(v.pages) |-> [path |-> v.pages[k], page_num |-> k]],
            page_html))

\* C1 (as amended): a call of process_chapter that finds the chapter's output
\* file reads no page, calls the provider not once, writes nothing and
\* reports the chapter as skipped; over the runs every output file is
\* written at most once, and a later run in which process_chapter returns
\* for a chapter written by an earlier run counts that chapter as skipped.
C1_ExistingOutputIsSkipped ==
    /\ \A v \in Returned :
           v.existed =>
               /\ v.page_reads = 0 /\ v.provider_calls = 0 /\ ~v.wrote
               /\ v.outcome = "skipped" /\ v.logged = "exists"
    /\ \A key \in AllKeys : audit.writes[key] <= 1
    /\ \A v \in Returned :
           (audit.written_run[v.chapter_key] \in 1..(audit.nrun - 1)) =>
               v.outcome = "skipped" /\ v.existed

\* C1 witness: the second run skipped a chapter the first run wrote (one of
\* its pages outlived the first cleanup), and the file was written once.
C1_Witness ==
    /\ audit.nrun = 2
    /\ \E v \in Returned :
           /\ v.outcome = "skipped" /\ v.page_reads = 0
           /\ audit.written_run[v.chapter_key] = 1
           /\ audit.writes[v.chapter_key] = 1
           /\ output_dir[v.chapter_key].complete

\* C1 as claimed: every later complete run with a translator counts a
\* chapter written by an earlier run as skipped.
C1_LaterRunsCountSkipped ==
    (main.pc = "done" /\ main.online_translator
        /\ \A v \in Visited : v.outcome # "interrupted") =>
        \A key \in AllKeys :
            (audit.written_run[key] \in 1..(audit.nrun - 1)) =>
                \E v \in Visited : v.chapter_key = key /\ v.outcome = "skipped"

\* C7 as claimed: with deletion enabled, after a full pass every page of
\* every chapter counted processed or skipped has reached the cleanup step:
\* it is gone from the source directory, or its removal was tried and failed.
C7_ProcessedAndSkippedAreDeleted ==
    (DELETE_SOURCE_FILES_AFTER_PROCESSING /\ FullPass) =>
        \A v \in Visited :
            v.outcome \in {"processed", "skipped"} =>
                \A k \in 1..Len(v.pages) :
                    v.pages[k] \notin source_dir \/ v.pages[k] \in main.failed_delete

\* C8: no page of a chapter that ended in an error (no text extracted, the
\* write failed, an unhandled exception, no translator) is handed to the
\* cleanup step, and it is still in the source directory, in every run; when
\* main has returned, every file handed to the cleanup whose own removal did
\* not fail is deleted, whatever removals failed.
C8_ErroredPagesAreKept ==
    /\ \A v \in Visited :
           (v.outcome = "error" \/ v.logged \in
                {"no_text", "write_failed", "exception", "no_translator"}) =>
               \A k \in 1..Len(v.pages) :
                   /\ v.pages[k] \in source_dir
                   /\ v.pages[k] \notin main.deleted \cup main.failed_delete
                   /\ \A j \in 1..Len(main.all_processed_source_files) :
                          main.all_processed_source_files[j] # v.pages[k]
    /\ main.pc = "done" =>
           LET listed == {main.all_processed_source_files[j] :
                              j \in 1..Len(main.all_processed_source_files)}
           IN  /\ listed \cap source_dir = main.failed_delete
               /\ main.deleted \cap source_dir = {}
               /\ DELETE_SOURCE_FILES_AFTER_PROCESSING =>
                      listed = main.deleted \cup main.failed_delete

\* C8 witness: one chapter ended in an error and keeps its page; of the two
\* pages of the processed chapter the removal of the first failed and the
\* second was deleted all the same.
C8_Witness ==
    /\ FullPass
    /\ \E v \in Visited : v.outcome = "error" /\ v.logged = "write_failed"
    /\ main.all_processed_source_files = <<PageA1, PageA2>>
    /\ main.failed_delete = {PageA1}
    /\ main.deleted = {PageA2}
    /\ source_dir = {PageA1, PageB1}

\* C9 as claimed: a chapter whose canonical paragraph sequence is empty is
\* reported as a content error: nothing is written, it is counted as an
\* error and no page path is returned.
C9_NoParagraphsIsContentError ==
    \A v \in Returned :
        (~v.existed /\ ParagraphsOf(v) = <<>>) =>
            /\ v.outcome = "error" /\ v.logged = "no_text"
            /\ ~v.wrote /\ v.returned = <<>>

----------------------------------------------------------------------------
(* Properties of process_chapter, checked under SpecChapter *)

Calls == {workers[w] : w \in DOMAIN workers}

\* The pieces of a stream that a PARAGRAPH_BREAK closes, in order, each
\* without its break; `piece` holds the items read since the last break.
RECURSIVE ClosedPieces(_, _)
ClosedPieces(stream, piece) ==
    IF stream = <<>> THEN <<>>
    ELSE IF Head(stream) = PARAGRAPH_BREAK
         THEN <<piece>> \o ClosedPieces(Tail(stream), <<>>)
         ELSE ClosedPieces(Tail(stream), Append(piece, Head(stream)))

\* The trimmed tokens of a paragraph that are not empty, in token order.
TokensOf(para_text) ==
    LET tokens == Tokenize(para_text)
    IN  SelectSeq([k \in 1..Len(tokens) |-> Strip(tokens[k])], NonEmpty)

\* The paragraphs a call has closed: all of them once the loop is left.
ClosedParagraphs(st) ==
    IF st.pc \in {"para", "seg"} THEN st.i - 1 ELSE Len(st.paragraphs)

\* C11: in every call the annotation stream holds, for each paragraph already
\* gone through, in paragraph order, one annotation per non-empty trimmed
\* token in token order and then one PARAGRAPH_BREAK; between paragraphs and
\* after the loop the stream of a call with a paragraph ends with a break, and
\* after the loop there are as many breaks as paragraphs.
C11_StreamFollowsParagraphs ==
    \A st \in Calls :
        LET stream == st.annotated_chapter_data
            pieces == ClosedPieces(stream, <<>>)
            closed == ClosedParagraphs(st)
        IN  /\ Len(pieces) = closed
            /\ \A k \in 1..Len(pieces) :
                   /\ k <= Len(st.paragraphs)
                   /\ [j \in 1..Len(pieces[k]) |-> pieces[k][j].zh]
                          = TokensOf(st.paragraphs[k])
            /\ (st.pc # "seg" /\ closed > 0) =>
                   stream # <<>> /\ stream[Len(stream)] = PARAGRAPH_BREAK
            /\ st.pc \in {"write", "returned"} =>
                   /\ Cardinality({k \in 1..Len(stream) : stream[k] = PARAGRAPH_BREAK})
                          = Len(st.paragraphs)
                   /\ st.total_segments_processed + Len(st.paragraphs) = Len(stream)

\* C11 witness: a page of two paragraphs, the first with a blank between its
\* two ideographs, was annotated to two annotations, a break, one annotation
\* and a break.
C11_Witness ==
    \E st \in Calls :
        /\ st.pc = "returned" /\ st.logged = "saved"
        /\ st.paragraphs = << <<"zh1", " ", "zh2">>, <<",">> >>
        /\ Len(st.annotated_chapter_data) = 5
        /\ st.annotated_chapter_data[2].zh = <<"zh2">>
        /\ st.annotated_chapter_data[3] = PARAGRAPH_BREAK
        /\ st.annotated_chapter_data[4].zh = <<",">>
        /\ st.annotated_chapter_data[5] = PARAGRAPH_BREAK

----------------------------------------------------------------------------
(* Properties of the loop of main, checked under Spec *)

PagesOf(v) == {v.pages[k] : k \in 1..Len(v.pages)}

\* The pages of the groups the loop of the current run has not reached.
UnreachedPages ==
    UNION { {main.grouped_chapters[g].pages[k].path :
                k \in 1..Len(main.grouped_chapters[g].pages)} :
            g \in (Len(main.visited) + 1)..Len(main.grouped_chapters) }

\* C12: once a user interrupt was raised inside process_chapter, the loop
\* is left: the interrupted chapter is the last one visited and nothing is
\* counted for it; every output written in the run is in the output
\* directory; the cleanup removes, or tries to remove, pages of chapters
\* counted processed before the interrupt only, and the pages of the
\* interrupted chapter and of the chapters not reached stay in the source
\* directory.
C12_InterruptStopsLoop ==
    \A n \in 1..Len(main.visited) :
        main.visited[n].outcome = "interrupted" =>
            /\ n = Len(main.visited)
            /\ main.pc \in {"cleanup", "done"}
            /\ main.chapters_processed_count + main.chapters_skipped_count
                   + main.chapters_error_count = n - 1
            /\ \A v \in Visited : v.wrote => v.chapter_key \in DOMAIN output_dir
            /\ \A v \in Visited :
                   v.outcome = "processed" => output_dir[v.chapter_key].complete
            /\ main.deleted \cup main.failed_delete
                   \subseteq UNION {PagesOf(v) : v \in {x \in Visited :
                                                       x.outcome = "processed"}}
            /\ PagesOf(main.visited[n]) \subseteq source_dir
            /\ UnreachedPages \subseteq source_dir
            /\ (PagesOf(main.visited[n]) \cup UnreachedPages)
                   \cap (main.deleted \cup main.failed_delete) = {}

\* C12 witness: the first chapter was processed, the second interrupted
\* after its output was written; the cleanup deleted the pages of the first
\* and the page of the second is still there.
C12_Witness ==
    /\ main.pc = "done" /\ Len(main.visited) = 2
    /\ main.visited[1].outcome = "processed"
    /\ main.visited[2].outcome = "interrupted" /\ main.visited[2].wrote
    /\ main.deleted = PagesOf(main.visited[1])
    /\ PagesOf(main.visited[2]) \subseteq source_dir
    /\ main.visited[2].chapter_key \in DOMAIN output_dir

\* The chapters whose output file was written in the current run.
WrittenThisRun == {key \in AllKeys : audit.written_run[key] = audit.nrun}

\* C13 as claimed: in a run whose translator set-up failed (the library is
\* missing, or constructing or testing the translator raised) no chapter is
\* visited, read, written or counted and no source file is deleted.
C13_NoTranslatorAbortsRun ==
    (main.translator_init \in {"missing", "construct_raises", "test_raises"}) =>
        /\ main.visited = <<>>
        /\ main.chapters_processed_count = 0
        /\ main.chapters_skipped_count = 0
        /\ main.chapters_error_count = 0
        /\ WrittenThisRun = {}
        /\ main.deleted = {} /\ main.failed_delete = {}

----------------------------------------------------------------------------
(* Properties of the annotation-errors flag, checked under SpecChapter *)

\* An annotation whose phonetic is the "N/A" marker or whose gloss is one of
\* the failure markers.
IsFailedAnnotation(item) ==
    /\ item # PARAGRAPH_BREAK
    /\ (item.py = <<"N/A">> \/ item.trans \in FailureMarkers)

\* C17 as claimed: when the annotation of a call is over, its flag is true
\* exactly when some annotation of the stream has the phonetic "N/A" or a
\* failure marker as gloss; and whatever the flag, the document is generated
\* from the stream, and with the write succeeding it is written, every page
\* path is returned and main counts the chapter as processed.
C17_FlagIffMarker ==
    \A st \in Calls :
        (st.pc \in {"write", "returned"} /\ st.logged \notin {"exists", "no_text"}) =>
            /\ st.annotation_errors_occurred
                   <=> \E k \in 1..Len(st.annotated_chapter_data) :
                           IsFailedAnnotation(st.annotated_chapter_data[k])
            /\ st.html_output_content.blocks
                   = ExpectedBlocks(st.annotated_chapter_data)
            /\ (st.pc = "returned" /\ st.env.write = "ok") =>
                   /\ st.wrote /\ ~st.skipped
                   /\ st.processed_files = PagePaths(st.page_files_data)
                   /\ output_dir[st.chapter_key] = st.html_output_content
                   /\ Count(MainIdle, st.chapter_key, st.page_files_data, st)
                          .chapters_processed_count = 1

----------------------------------------------------------------------------
(* Properties of concurrent calls of process_chapter, checked under        *)
(* SpecWorkers                                                             *)

\* The call of worker w found no output file at line 234 and went on.
PassedCheck(w) ==
    /\ w \in DOMAIN workers
    /\ workers[w].pc # "check" /\ ~workers[w].existed

\* C18 as claimed: of two concurrent calls for the same chapter key, never
\* both pass the output-exists check and both write the chapter's output.
C18_NoDoubleProduce ==
    \A a, b \in Workers :
        a # b => ~(/\ PassedCheck(a) /\ PassedCheck(b)
                   /\ workers[a].wrote /\ workers[b].wrote)

----------------------------------------------------------------------------
(* Properties of partly readable chapters, checked under Spec *)

\* The characters a page contributes to the document: those of its
\* paragraphs that are neither blank nor the placeholder, blanks left out.
RECURSIVE CharsOf(_)
CharsOf(paragraphs) ==
    IF paragraphs = <<>> THEN <<>>
    ELSE LET para == Head(paragraphs)
             notblank(c) == c \notin WhitespaceChars
         IN  (IF IsGoodPiece(para) THEN SelectSeq(para, notblank) ELSE <<>>)
                 \o CharsOf(Tail(paragraphs))

\* The characters of the pages of a chapter, page after page.
RECURSIVE ChapterChars(_)
ChapterChars(pages) ==
    IF pages = <<>> THEN <<>>
    ELSE CharsOf(page_html[Head(pages)].paragraphs) \o ChapterChars(Tail(pages))

\* The characters of the Chinese rows of a document, block after block.
RECURSIVE DocumentChars(_)
DocumentChars(blocks) ==
    IF blocks = <<>> THEN <<>>
    ELSE LET row == Head(blocks).chinese_row
             RECURSIVE flat(_)
             flat(cells) == IF cells = <<>> THEN <<>>
                            ELSE Head(cells) \o flat(Tail(cells))
         IN  flat(row) \o DocumentChars(Tail(blocks))

\* The pages of a visited chapter from which text was extracted.
YieldingPages(v) ==
    { k \in 1..Len(v.pages) :
        /\ page_html[v.pages[k]].kind = "html"
        /\ \E j \in 1..Len(page_html[v.pages[k]].paragraphs) :
               \E m \in 1..Len(page_html[v.pages[k]].paragraphs[j]) :
                   page_html[v.pages[k]].paragraphs[j][m] \notin WhitespaceChars }

\* C20: a call of process_chapter that found no output file and has a page
\* yielding text does not end for want of text, whatever its other pages
\* are; when its write succeeded, the document holds the text of the
\* readable pages in page order, every page path of the group was returned,
\* the pages without text included, and after the cleanup each of these
\* pages is deleted or its removal was tried and failed.
C20_UnreadablePagesTolerated ==
    \A v \in Returned :
        ~v.existed =>
            /\ YieldingPages(v) # {} => v.logged \in {"saved", "write_failed"}
            /\ v.logged = "saved" =>
                   /\ YieldingPages(v) # {}
                   /\ \A a, b \in 1..Len(v.pages) :
                          a < b => IntOf(v.pages[a][6]) <= IntOf(v.pages[b][6])
                   /\ DocumentChars(output_dir[v.chapter_key].blocks)
                          = ChapterChars(v.pages)
                   /\ v.returned = v.pages
                   /\ v.outcome = "processed"
                   /\ main.pc = "done" =>
                          \A k \in 1..Len(v.pages) :
                              \/ v.pages[k] \in main.deleted /\ v.pages[k] \notin source_dir
                              \/ v.pages[k] \in main.failed_delete

\* C20 witness: the first page of the chapter cannot be read, the second has
\* text; the document holds the second page's text and both pages were
\* deleted.
C20_Witness ==
    /\ main.pc = "done"
    /\ \E v \in Returned :
           /\ v.pages = <<PageA1, PageA2>> /\ v.logged = "saved"
           /\ page_html[PageA1] = Unreadable /\ page_html[PageA2] = SecondTextPage
           /\ DocumentChars(output_dir[v.chapter_key].blocks) = <<"zh2">>
           /\ {PageA1, PageA2} \subseteq main.deleted

----------------------------------------------------------------------------
(* Properties of the counters of main, checked under Spec *)

\* The chapters of the current run that ended as `logs` tells, by what
\* process_chapter or the loop logged for them.
VisitsLogged(logs) ==
    Cardinality({n \in 1..Len(main.visited) : main.visited[n].logged \in logs})

\* The chapters of the current run visited without an interrupt.
Uninterrupted ==
    Cardinality({n \in 1..Len(main.visited) :
                    main.visited[n].outcome # "interrupted"})

\* C21: in every state of the loop each group visited without an interrupt
\* has raised exactly one counter: the processed counter counts the chapters
\* whose output was saved, the skipped counter those whose output existed,
\* the error counter the others, so the three add up to the groups visited
\* without an interrupt; between two iterations that is the number of groups
\* gone through, after an uninterrupted pass the number of groups; and a
\* chapter is counted processed only when its output file was written whole.
C21_CountersAddUp ==
    /\ main.chapters_processed_count = VisitsLogged({"saved"})
    /\ main.chapters_skipped_count = VisitsLogged({"exists"})
    /\ main.chapters_error_count
           = VisitsLogged({"no_text", "write_failed", "exception", "no_translator"})
    /\ main.chapters_processed_count + main.chapters_skipped_count
           + main.chapters_error_count = Uninterrupted
    /\ main.pc = "loop" =>
           /\ Len(main.visited) = main.g - 1
           /\ Uninterrupted = main.g - 1
    /\ FullPass =>
           main.chapters_processed_count + main.chapters_skipped_count
               + main.chapters_error_count = Len(main.grouped_chapters)
    /\ \A v \in Visited :
           v.outcome = "processed" =>
               /\ v.wrote /\ v.logged = "saved"
               /\ v.chapter_key \in DOMAIN output_dir
               /\ output_dir[v.chapter_key].complete
    /\ \A v \in Visited :
           (v.logged = "write_failed" \/ ~v.wrote) => v.outcome # "processed"

\* C21 witness: a full pass over two groups, one skipped because its output
\* existed and one counted as an error because its write failed half way.
C21_Witness ==
    /\ FullPass /\ Len(main.grouped_chapters) = 2
    /\ main.chapters_processed_count = 0
    /\ main.chapters_skipped_count = 1
    /\ main.chapters_error_count = 1
    /\ \E v \in Visited : v.logged = "write_failed" /\ v.wrote

====
